---------------------------- MODULE Spec2Model ----------------------------
(***************************************************************************)
(* A model of flask_simple_crypt.SimpleCrypt: the instance attributes, the *)
(* init_app / encrypt / decrypt handlers translated line by line, and the  *)
(* helpers they call.                                                      *)
(*                                                                         *)
(* Byte values.  A byte is a record [lit, syms]: lit is the known part     *)
(* (0..255) and syms is a set of atoms, each atom standing for one output  *)
(* byte of a cryptographic primitive of PyCrypto (PBKDF2, HMAC-SHA256, an  *)
(* AES block).  The byte denotes  lit XOR (XOR of its atoms), so XOR is    *)
(* exact: it is the bitwise XOR of the known parts and the symmetric       *)
(* difference of the atoms.  The primitives are deterministic functions    *)
(* whose outputs on distinct inputs are distinct atoms (the usual symbolic *)
(* treatment of a PRF); the table `tab` records which input got which      *)
(* atoms, so that the same input always gives the same output.             *)
(***************************************************************************)
EXTENDS Integers, Sequences, FiniteSets, TLC

VARIABLES self, tab, made, thr

vars == <<self, tab, made, thr>>

-----------------------------------------------------------------------------
(* Bounds of the model *)

\* the longest plaintext that is written out byte by byte
MaxPlain == 2

-----------------------------------------------------------------------------
(* Integers of any size, as Python has them: little-endian limbs *)

LimbBase == 256 * 256

RECURSIVE BigOf(_)
BigOf(n) == IF n = 0 THEN <<>> ELSE <<n % LimbBase>> \o BigOf(n \div LimbBase)

RECURSIVE BigNorm(_)
BigNorm(a) ==
    IF a = <<>> THEN a
    ELSE IF a[Len(a)] = 0 THEN BigNorm(SubSeq(a, 1, Len(a) - 1)) ELSE a

BigLimb(a, i) == IF i <= Len(a) THEN a[i] ELSE 0

RECURSIVE BigAddFrom(_, _, _, _)
BigAddFrom(a, b, i, carry) ==
    IF i > Len(a) /\ i > Len(b)
    THEN (IF carry = 0 THEN <<>> ELSE <<carry>>)
    ELSE LET s == BigLimb(a, i) + BigLimb(b, i) + carry
         IN  <<s % LimbBase>> \o BigAddFrom(a, b, i + 1, s \div LimbBase)

BigAdd(a, b) == BigNorm(BigAddFrom(a, b, 1, 0))

\* a - 1, for a > 0
RECURSIVE BigPred(_)
BigPred(a) ==
    IF a[1] > 0 THEN BigNorm(<<a[1] - 1>> \o Tail(a))
    ELSE BigNorm(<<LimbBase - 1>> \o BigPred(Tail(a)))

RECURSIVE BigGtFrom(_, _, _)
BigGtFrom(a, b, i) ==
    IF i = 0 THEN FALSE
    ELSE IF a[i] # b[i] THEN a[i] > b[i] ELSE BigGtFrom(a, b, i - 1)

\* a > b, both normalised
BigGt(a, b) ==
    IF Len(a) # Len(b) THEN Len(a) > Len(b) ELSE BigGtFrom(a, b, Len(a))

BigLt(a, b) == BigGt(b, a)

RECURSIVE SmallPow2(_)
SmallPow2(e) == IF e = 0 THEN 1 ELSE 2 * SmallPow2(e - 1)

\* 2 ** e
BigPow2(e) == [i \in 1..(e \div 16) |-> 0] \o <<SmallPow2(e % 16)>>

-----------------------------------------------------------------------------
(* Bytes *)

RECURSIVE BitXor(_, _)
BitXor(a, b) ==
    IF a = 0 THEN b
    ELSE IF b = 0 THEN a
    ELSE (((a % 2) + (b % 2)) % 2) + (2 * BitXor(a \div 2, b \div 2))

Lit(n) == [lit |-> n, syms |-> {}]

Lits(s) == [i \in 1..Len(s) |-> Lit(s[i])]

Xor(x, y) ==
    [lit |-> BitXor(x.lit, y.lit),
     syms |-> (x.syms \ y.syms) \cup (y.syms \ x.syms)]

IsLit(x) == x.syms = {}

Min(a, b) == IF a < b THEN a ELSE b
Max(a, b) == IF a > b THEN a ELSE b

\* Python's s[a:b] for a, b that may be negative
PyIndex(i, n) == IF i < 0 THEN Max(n + i, 0) ELSE Min(i, n)
PySlice(s, a, b) == SubSeq(s, PyIndex(a, Len(s)) + 1, PyIndex(b, Len(s)))
\* s[a:]
PyFrom(s, a) == SubSeq(s, PyIndex(a, Len(s)) + 1, Len(s))
\* s[:b]
PyTo(s, b) == SubSeq(s, 1, PyIndex(b, Len(s)))

-----------------------------------------------------------------------------
(* Python values handed to and returned by the public operations: bytes,   *)
(* text (str) or None.  v holds the bytes (or the code points of a text)   *)
(* that are written out; a byte string too long to write out continues     *)
(* with ext further bytes whose content is not followed, and then tail.    *)

Val(t, v) == [t |-> t, v |-> v, ext |-> <<>>, tail |-> <<>>]

None == Val("None", <<>>)

Bytes(v) == Val("bytes", v)

Text(v) == Val("str", v)

\* len(x)
PyLen(x) == BigAdd(BigAdd(BigOf(Len(x.v)), x.ext), BigOf(Len(x.tail)))

\* `not x` for None, bytes and text
PyNot(x) == x.t = "None" \/ PyLen(x) = <<>>

\* one code point in UTF-8
Utf8(c) ==
    IF ~IsLit(c) \/ c.lit < 128 THEN <<c>>
    ELSE <<Lit(192 + (c.lit \div 64)), Lit(128 + (c.lit % 64))>>

RECURSIVE Utf8Encode(_)
Utf8Encode(s) == IF s = <<>> THEN <<>> ELSE Utf8(Head(s)) \o Utf8Encode(Tail(s))

-----------------------------------------------------------------------------
(* The primitives of PyCrypto *)

AES_block_size == 16

SHA256_digest_size == 32

\* the bytes one input of a primitive may give: 2 * key_len of PBKDF2
AtomsPerInput == 2 * SHA256_digest_size

Input(o, a, b, ext, n) == [o |-> o, a |-> a, b |-> b, ext |-> ext, n |-> n]

\* the table after the primitive was asked for input q, and q's place in it
Ask(t, q) ==
    IF \E i \in 1..Len(t) : t[i] = q
    THEN [tab |-> t, id |-> CHOOSE i \in 1..Len(t) : t[i] = q]
    ELSE [tab |-> Append(t, q), id |-> Len(t) + 1]

\* the first n output bytes for the input at place id
Out(id, n) == [i \in 1..n |-> [lit |-> 0, syms |-> {(id * AtomsPerInput) + (i - 1)}]]

\* PBKDF2(password, salt, dkLen, count, prf = HMAC-SHA256): a shorter dkLen
\* gives a prefix of the longer output
PBKDF2(t, password, salt, dkLen, count) ==
    LET r == Ask(t, Input("pbkdf2", password, salt, <<>>, count))
    IN  [tab |-> r.tab, out |-> Out(r.id, dkLen)]

\* HMAC.new(key, data, SHA256).digest(); data may continue with ext bytes
HMAC_digest(t, key, data, ext) ==
    LET r == Ask(t, Input("hmac", key, data, ext, 0))
    IN  [tab |-> r.tab, out |-> Out(r.id, SHA256_digest_size)]

\* n as nbytes big-endian bytes
RECURSIVE BigEndian(_, _)
BigEndian(n, nbytes) ==
    IF nbytes = 0 THEN <<>> ELSE BigEndian(n \div 256, nbytes - 1) \o <<Lit(n % 256)>>

\* Counter.new(nbits, prefix): the counter block of the i-th block (i from 0);
\* PyCrypto counts from initial_value = 1
CounterBlock(nbits, prefix, i) == prefix \o BigEndian(i + 1, nbits \div 8)

\* AES.new(key, MODE_CTR, counter).encrypt(data) on the bytes written out:
\* each byte XOR the key stream, block by block (decrypt is the same)
RECURSIVE AES_CTR(_, _, _, _, _, _)
AES_CTR(t, key, nbits, prefix, data, i) ==
    IF data = <<>> THEN [tab |-> t, out |-> <<>>]
    ELSE LET r == Ask(t, Input("aes", key, CounterBlock(nbits, prefix, i), <<>>, 0))
             n == Min(Len(data), AES_block_size)
             ks == Out(r.id, n)
             rest == AES_CTR(r.tab, key, nbits, prefix,
                             SubSeq(data, n + 1, Len(data)), i + 1)
         IN  [tab |-> rest.tab,
              out |-> [j \in 1..n |-> Xor(data[j], ks[j])] \o rest.out]

-----------------------------------------------------------------------------
(* class SimpleCrypt: the attributes __init__ sets *)

\* the exceptions raised, by kind and message
RequiresSecretKey == "RuntimeError: flask-simple-crypt requires the usage of SECRET_KEY"

MustBeBytes == "DecryptionException: Data to decrypt must be bytes"

TooLong == "EncryptionException: Message is too long."

MissingData == "DecryptionException: Missing data."

BadHeader == "DecryptionException: bad header"

BadPassword == "DecryptionException: Bad password or corrupt / modified data."

MissingSalt == "ValueError: Missing salt."

MissingPassword == "ValueError: Missing password."

\* EXPANSION_COUNT = None
NoCount == -1

SimpleCrypt_init ==
    LET PREFIX == Lits(<<102, 115, 99>>)
        HEADER == PREFIX \o Lits(<<0, 2>>)
    IN  [AES_KEY_LEN |-> 256,
         SALT_LEN |-> 256,
         HASH |-> [digest_size |-> SHA256_digest_size],
         PREFIX |-> PREFIX,
         HEADER |-> HEADER,
         HALF_BLOCK |-> (AES_block_size * 8) \div 2,
         HEADER_LEN |-> Len(HEADER),
         EXPANSION_COUNT |-> NoCount,
         FSC_KEY |-> None]

\* app.config: has_count says whether FSC_EXPANSION_COUNT is set
Config(has_count, count, key) ==
    [has_count |-> has_count, FSC_EXPANSION_COUNT |-> count, SECRET_KEY |-> key]

\* init_app: the instance afterwards and the exception raised ("" for none)
\* init_app without the test of the key
init_app_unchecked(slf, config) ==
    [self |-> [slf EXCEPT !.EXPANSION_COUNT =
                   IF config.has_count THEN config.FSC_EXPANSION_COUNT ELSE 10000,
                          !.FSC_KEY = config.SECRET_KEY],
     exc |-> ""]

init_app(slf, config) ==
    LET s1 == [slf EXCEPT !.EXPANSION_COUNT =
                   IF config.has_count THEN config.FSC_EXPANSION_COUNT ELSE 10000]
        key == config.SECRET_KEY
    IN  IF PyNot(key)
        THEN [self |-> s1,
              exc |-> RequiresSecretKey]
        ELSE [self |-> [s1 EXCEPT !.FSC_KEY = key], exc |-> ""]

-----------------------------------------------------------------------------
(* The helpers.  One that raises gives the exception as a string, ""       *)
(* when it returns normally.                                               *)


_str_to_bytes(slf, data) ==
    IF data.t = "str" THEN Bytes(Utf8Encode(data.v)) ELSE data

\* _assert_not_unicode testing for the wrong type
_assert_not_unicode_wrong_type(slf, data) ==
    IF data.t = "None" THEN MustBeBytes ELSE ""

_assert_not_unicode(slf, data) ==
    IF data.t = "str"
    THEN MustBeBytes
    ELSE ""

\* _assert_encrypt_length with >= for >
_assert_encrypt_length_ge(slf, data) ==
    IF ~BigLt(PyLen(data), BigPow2(slf.HALF_BLOCK)) THEN TooLong ELSE ""

_assert_encrypt_length(slf, data) ==
    IF BigGt(PyLen(data), BigPow2(slf.HALF_BLOCK))
    THEN TooLong
    ELSE ""

_assert_decrypt_length(slf, data) ==
    IF BigLt(PyLen(data),
             BigOf(slf.HEADER_LEN + (slf.SALT_LEN \div 8) + slf.HASH.digest_size))
    THEN MissingData
    ELSE ""

\* _assert_header_prefix without the test of the length
_assert_header_prefix_any_length(slf, data) ==
    IF PyTo(data.v, 3) # slf.PREFIX THEN BadHeader ELSE ""

_assert_header_prefix(slf, data) ==
    IF ~BigLt(PyLen(data), BigOf(3)) /\ PyTo(data.v, 3) # slf.PREFIX
    THEN BadHeader
    ELSE ""

_pbkdf2(slf, t, password, salt, n_bytes, count) ==
    PBKDF2(t, password, salt, n_bytes, count)

_hmac(slf, t, key, data, ext) == HMAC_digest(t, key, data, ext)

\* _assert_hmac comparing the recomputed MAC with itself
_assert_hmac_same(slf, t, key, mac, mac2) ==
    LET h1 == _hmac(slf, t, key, mac2, <<>>)
        h2 == _hmac(slf, h1.tab, key, mac2, <<>>)
    IN  [tab |-> h2.tab, exc |-> IF h1.out # h2.out THEN BadPassword ELSE ""]

_assert_hmac(slf, t, key, mac, mac2) ==
    LET h1 == _hmac(slf, t, key, mac, <<>>)
        h2 == _hmac(slf, h1.tab, key, mac2, <<>>)
    IN  [tab |-> h2.tab,
         exc |-> IF h1.out # h2.out
                 THEN BadPassword
                 ELSE ""]

\* _expand_keys deriving the keys from the salt alone
_expand_keys_no_password(slf, t, password, salt, expansion_count) ==
    IF salt = <<>>
    THEN [tab |-> t, exc |-> MissingSalt, mac |-> <<>>, cipher |-> <<>>]
    ELSE IF PyNot(password)
    THEN [tab |-> t, exc |-> MissingPassword, mac |-> <<>>, cipher |-> <<>>]
    ELSE LET key_len == slf.AES_KEY_LEN \div 8
             keys == _pbkdf2(slf, t, salt, salt, 2 * key_len, expansion_count)
         IN  [tab |-> keys.tab, exc |-> "",
              mac |-> PyTo(keys.out, key_len), cipher |-> PyFrom(keys.out, key_len)]

_expand_keys(slf, t, password, salt, expansion_count) ==
    IF salt = <<>>
    THEN [tab |-> t, exc |-> MissingSalt, mac |-> <<>>, cipher |-> <<>>]
    ELSE IF PyNot(password)
    THEN [tab |-> t, exc |-> MissingPassword, mac |-> <<>>, cipher |-> <<>>]
    ELSE LET key_len == slf.AES_KEY_LEN \div 8
             keys == _pbkdf2(slf, t, _str_to_bytes(slf, password).v, salt,
                            2 * key_len, expansion_count)
         IN  [tab |-> keys.tab, exc |-> "",
              mac |-> PyTo(keys.out, key_len), cipher |-> PyFrom(keys.out, key_len)]

_hide(slf, t, ranbytes) == _pbkdf2(slf, t, ranbytes, <<>>, Len(ranbytes), 1)

\* rnd: the n bytes getrandbits(8) gives this time
_random_bytes(slf, t, n, rnd) == _hide(slf, t, PyTo(rnd, n))

-----------------------------------------------------------------------------
(* One call of encrypt or decrypt.  m = [self, tab, f]: the instance, the  *)
(* primitives' table and the call's frame f.  f.pc is the source line to   *)
(* run next (0 once the call has returned or raised), f.trace the lines    *)
(* run so far, f.ret the value returned and f.exc the exception raised.    *)

Frame(op, data, rnd) ==
    [op |-> op,
     pc |-> IF op = "encrypt" THEN 56 ELSE IF op = "decrypt" THEN 67 ELSE 0,
     arg |-> data, data |-> data, rnd |-> rnd,
     salt |-> <<>>, hmac_key |-> <<>>, cipher_key |-> <<>>,
     counter |-> <<>>, cipher |-> [key |-> <<>>, prefix |-> <<>>],
     encrypted |-> None, raw |-> <<>>, hmac |-> <<>>, hmac2 |-> <<>>,
     ret |-> None, exc |-> "", trace |-> <<>>]

Idle == Frame("idle", None, <<>>)

Goto(m, line) == [m EXCEPT !.f.pc = line]

Raise(m, e) == [m EXCEPT !.f.pc = 0, !.f.exc = e]

Return(m, value) == [m EXCEPT !.f.pc = 0, !.f.ret = value]

\* run a helper that may raise, then go on at line
Check(m, e, line) == IF e # "" THEN Raise(m, e) ELSE Goto(m, line)

encrypt_56(m) ==
    Goto([m EXCEPT !.f.data = _str_to_bytes(m.self, m.f.data)], 57)

encrypt_57(m) == Check(m, _assert_encrypt_length(m.self, m.f.data), 58)

encrypt_58(m) ==
    LET r == _random_bytes(m.self, m.tab, m.self.SALT_LEN \div 8, m.f.rnd)
    IN  Goto([m EXCEPT !.tab = r.tab, !.f.salt = r.out], 59)

\* encrypt_59 with the derived MAC key put in the instance's key
encrypt_59_key_on_self(m) ==
    LET k == _expand_keys(m.self, m.tab, m.self.FSC_KEY, m.f.salt,
                          m.self.EXPANSION_COUNT)
    IN  Check([m EXCEPT !.tab = k.tab, !.self.FSC_KEY = Bytes(k.mac),
                        !.f.hmac_key = k.mac, !.f.cipher_key = k.cipher], k.exc, 60)

encrypt_59(m) ==
    LET k == _expand_keys(m.self, m.tab, m.self.FSC_KEY, m.f.salt,
                          m.self.EXPANSION_COUNT)
    IN  Check([m EXCEPT !.tab = k.tab, !.f.hmac_key = k.mac,
                        !.f.cipher_key = k.cipher], k.exc, 60)

\* encrypt_60 with the counter prefix taken from the wrong bytes of the salt
encrypt_60_wrong_prefix(m) ==
    Goto([m EXCEPT !.f.counter =
              PySlice(m.f.salt, m.self.HALF_BLOCK \div 8, m.self.HALF_BLOCK \div 4)], 61)

encrypt_60(m) ==
    Goto([m EXCEPT !.f.counter = PyTo(m.f.salt, m.self.HALF_BLOCK \div 8)], 61)

encrypt_61(m) ==
    Goto([m EXCEPT !.f.cipher = [key |-> m.f.cipher_key, prefix |-> m.f.counter]], 62)

encrypt_62(m) ==
    LET c == AES_CTR(m.tab, m.f.cipher.key, m.self.HALF_BLOCK, m.f.cipher.prefix,
                     m.f.data.v, 0)
    IN  Goto([m EXCEPT !.tab = c.tab,
                       !.f.encrypted = [m.f.data EXCEPT !.v = c.out]], 63)

\* encrypt_63 with the MAC over the salt and the ciphertext only
encrypt_63_no_header(m) ==
    LET h == _hmac(m.self, m.tab, m.f.hmac_key,
                   m.f.salt \o m.f.encrypted.v, m.f.encrypted.ext)
    IN  Goto([m EXCEPT !.tab = h.tab, !.f.hmac = h.out], 64)

encrypt_63(m) ==
    LET h == _hmac(m.self, m.tab, m.f.hmac_key,
                   m.self.HEADER \o m.f.salt \o m.f.encrypted.v, m.f.encrypted.ext)
    IN  Goto([m EXCEPT !.tab = h.tab, !.f.hmac = h.out], 64)

encrypt_64(m) ==
    LET head == m.self.HEADER \o m.f.salt \o m.f.encrypted.v
    IN  Return(m, IF m.f.encrypted.ext = <<>>
                  THEN Bytes(head \o m.f.hmac)
                  ELSE [t |-> "bytes", v |-> head, ext |-> m.f.encrypted.ext,
                        tail |-> m.f.hmac])

decrypt_67(m) == Check(m, _assert_not_unicode(m.self, m.f.data), 68)

decrypt_68(m) == Check(m, _assert_header_prefix(m.self, m.f.data), 69)

decrypt_69(m) == Check(m, _assert_decrypt_length(m.self, m.f.data), 70)

decrypt_70(m) == Goto([m EXCEPT !.f.raw = PyFrom(m.f.data.v, m.self.HEADER_LEN)], 71)

decrypt_71(m) ==
    Goto([m EXCEPT !.f.salt = PyTo(m.f.raw, m.self.SALT_LEN \div 8)], 72)

decrypt_72(m) ==
    LET k == _expand_keys(m.self, m.tab, m.self.FSC_KEY, m.f.salt,
                          m.self.EXPANSION_COUNT)
    IN  Check([m EXCEPT !.tab = k.tab, !.f.hmac_key = k.mac,
                        !.f.cipher_key = k.cipher], k.exc, 73)

decrypt_73(m) ==
    Goto([m EXCEPT !.f.hmac = PyFrom(m.f.raw, 0 - m.self.HASH.digest_size)], 74)

\* decrypt_74 with the MAC recomputed over the constant header, not the
\* header that came in
decrypt_74_own_header(m) ==
    LET h == _hmac(m.self, m.tab, m.f.hmac_key,
                   m.self.HEADER \o PyTo(m.f.raw, 0 - m.self.HASH.digest_size), <<>>)
    IN  Goto([m EXCEPT !.tab = h.tab, !.f.hmac2 = h.out], 75)

decrypt_74(m) ==
    LET h == _hmac(m.self, m.tab, m.f.hmac_key,
                   PyTo(m.f.data.v, 0 - m.self.HASH.digest_size), <<>>)
    IN  Goto([m EXCEPT !.tab = h.tab, !.f.hmac2 = h.out], 75)

decrypt_75(m) ==
    LET a == _assert_hmac(m.self, m.tab, m.f.hmac_key, m.f.hmac, m.f.hmac2)
    IN  Check([m EXCEPT !.tab = a.tab], a.exc, 76)

decrypt_76(m) ==
    Goto([m EXCEPT !.f.counter = PyTo(m.f.salt, m.self.HALF_BLOCK \div 8)], 77)

decrypt_77(m) ==
    Goto([m EXCEPT !.f.cipher = [key |-> m.f.cipher_key, prefix |-> m.f.counter]], 78)

decrypt_78(m) ==
    LET c == AES_CTR(m.tab, m.f.cipher.key, m.self.HALF_BLOCK, m.f.cipher.prefix,
                     PySlice(m.f.raw, m.self.SALT_LEN \div 8,
                             0 - m.self.HASH.digest_size), 0)
    IN  Return([m EXCEPT !.tab = c.tab], Bytes(c.out))

\* the line at f.pc
Line(m) ==
    CASE m.f.pc = 56 -> encrypt_56(m)
      [] m.f.pc = 57 -> encrypt_57(m)
      [] m.f.pc = 58 -> encrypt_58(m)
      [] m.f.pc = 59 -> encrypt_59(m)
      [] m.f.pc = 60 -> encrypt_60(m)
      [] m.f.pc = 61 -> encrypt_61(m)
      [] m.f.pc = 62 -> encrypt_62(m)
      [] m.f.pc = 63 -> encrypt_63(m)
      [] m.f.pc = 64 -> encrypt_64(m)
      [] m.f.pc = 67 -> decrypt_67(m)
      [] m.f.pc = 68 -> decrypt_68(m)
      [] m.f.pc = 69 -> decrypt_69(m)
      [] m.f.pc = 70 -> decrypt_70(m)
      [] m.f.pc = 71 -> decrypt_71(m)
      [] m.f.pc = 72 -> decrypt_72(m)
      [] m.f.pc = 73 -> decrypt_73(m)
      [] m.f.pc = 74 -> decrypt_74(m)
      [] m.f.pc = 75 -> decrypt_75(m)
      [] m.f.pc = 76 -> decrypt_76(m)
      [] m.f.pc = 77 -> decrypt_77(m)
      [] m.f.pc = 78 -> decrypt_78(m)

\* run the line at f.pc and note it in the trace
Step(m) ==
    LET n == Line(m) IN [n EXCEPT !.f.trace = Append(m.f.trace, m.f.pc)]

\* run the call to its return or raise
RECURSIVE Run(_)
Run(m) == IF m.f.pc = 0 THEN m ELSE Run(Step(m))

encrypt(slf, t, data, rnd) == Run([self |-> slf, tab |-> t, f |-> Frame("encrypt", data, rnd)])

decrypt(slf, t, data) == Run([self |-> slf, tab |-> t, f |-> Frame("decrypt", data, <<>>)])

-----------------------------------------------------------------------------
(* What the callers pass in *)

\* the byte values plaintexts are made of
PlainBytes == {104, 255}

RECURSIVE SeqsUpTo(_, _)
SeqsUpTo(S, n) ==
    IF n = 0 THEN {<<>>}
    ELSE LET shorter == SeqsUpTo(S, n - 1)
         IN  shorter \cup {Append(s, x) : s \in {r \in shorter : Len(r) = n - 1}, x \in S}

\* plaintexts written out byte by byte: bytes, and a text with a non-ASCII character
Plaintexts ==
    {Bytes(Lits(s)) : s \in SeqsUpTo(PlainBytes, MaxPlain)}
        \cup {Text(Lits(<<104, 233>>))}

\* plaintexts around the length bound 2 ** HALF_BLOCK, content not followed
LongPlaintexts ==
    LET bound == BigPow2(SimpleCrypt_init.HALF_BLOCK)
    IN  {[Bytes(<<>>) EXCEPT !.ext = n] :
             n \in {BigPred(bound), bound, BigAdd(bound, BigOf(1))}}
          \cup {[Bytes(Lits(<<104>>)) EXCEPT !.ext = BigPred(bound)]}

\* what getrandbits gives for one salt
Randoms == {[i \in 1..32 |-> Lit(b)] : b \in {0, 1}}

SecretKeys == {Bytes(Lits(<<107, 49>>)), Bytes(Lits(<<107, 50>>))}

\* app.config: SECRET_KEY set, absent (None) or empty; FSC_EXPANSION_COUNT
\* absent or set
Configs ==
    {Config(FALSE, 0, k) : k \in SecretKeys \cup {None, Bytes(<<>>)}}
        \cup {Config(TRUE, 1000, Bytes(Lits(<<107, 49>>)))}

\* b XOR-ed into byte i of s (i from 1)
Tamper(s, i, b) == [s EXCEPT ![i] = Xor(s[i], Lit(b))]

\* the changes made to one byte
Deltas == {1, 128}

\* n bytes: the given first bytes, then zeros
Junk(first, n) == PyTo(first \o [i \in 1..n |-> Lit(0)], n)

\* inputs no longer than the shortest envelope, with the prefix and without
ShortInputs ==
    LET least == SimpleCrypt_init.HEADER_LEN + (SimpleCrypt_init.SALT_LEN \div 8)
                     + SimpleCrypt_init.HASH.digest_size
    IN  {Bytes(Junk(first, n)) :
             first \in {SimpleCrypt_init.HEADER, Lits(<<120, 115, 99, 0, 2>>)},
             n \in 0..least}

-----------------------------------------------------------------------------
(* The state: the one SimpleCrypt instance, the primitives' table, the     *)
(* envelopes the callers keep, and the frame of each thread's call.        *)

Threads == {1, 2}

Main == 1

\* what the caller keeps of a call of encrypt that returned
Kept(m) ==
    [p |-> m.f.arg, e |-> m.f.ret, key |-> m.self.FSC_KEY,
     count |-> m.self.EXPANSION_COUNT]

Envelopes == {made[i].e : i \in 1..Len(made)}

Init ==
    /\ self = SimpleCrypt_init
    /\ tab = <<>>
    /\ made = <<>>
    /\ thr = [t \in Threads |-> Idle]

\* the caller makes its next call once it is done with the last one
Ready == thr[Main] = Idle

\* init_app(app), on a new instance or on one already initialised
InitApp(config) ==
    /\ Ready
    /\ LET r == init_app(self, config)
       IN  /\ self' = r.self
           /\ thr' = [thr EXCEPT ![Main] =
                          [Frame("init_app", config.SECRET_KEY, <<>>) EXCEPT !.exc = r.exc]]
    /\ UNCHANGED <<tab, made>>

\* a whole call of encrypt.  The caller keeps the envelope, when it is
\* written out, in place of the one kept before; the table then holds what
\* this call asked of the primitives.
Encrypt(data, rnd) ==
    /\ Ready
    /\ LET m == encrypt(self, <<>>, data, rnd)
           keep == m.f.exc = "" /\ m.f.ret.ext = <<>>
       IN  /\ self' = m.self
           /\ thr' = [thr EXCEPT ![Main] = m.f]
           /\ tab' = IF keep THEN m.tab ELSE tab
           /\ made' = IF keep THEN <<Kept(m)>> ELSE made

\* a whole call of decrypt; of what it computed only its frame is kept
Decrypt(data) ==
    LET m == decrypt(self, tab, data)
    IN  /\ self' = m.self
        /\ thr' = [thr EXCEPT ![Main] = m.f]
        /\ UNCHANGED <<tab, made>>

\* decrypt of the envelope kept
DecryptKept == Ready /\ \E e \in Envelopes : Decrypt(e)

\* decrypt of the envelope kept with one byte changed
DecryptChanged ==
    /\ Ready
    /\ \E e \in Envelopes : \E i \in 1..Len(e.v), b \in Deltas :
           Decrypt([e EXCEPT !.v = Tamper(e.v, i, b)])

\* decrypt of the envelope kept without its last byte
DecryptCut == Ready /\ \E e \in Envelopes : Decrypt([e EXCEPT !.v = PyTo(e.v, -1)])

\* decrypt of a text: the envelope kept or the prefix, decoded
DecryptText ==
    /\ Ready
    /\ \E d \in {Text(e.v) : e \in Envelopes} \cup {Text(Junk(SimpleCrypt_init.HEADER, 3))} :
           Decrypt(d)

\* decrypt of a short input
DecryptShort == Ready /\ \E d \in ShortInputs : Decrypt(d)

\* the caller is done with the result of its call
Forget ==
    /\ ~Ready
    /\ thr' = [thr EXCEPT ![Main] = Idle]
    /\ UNCHANGED <<self, tab, made>>

Next ==
    \/ \E c \in Configs : InitApp(c)
    \/ \E d \in Plaintexts \cup LongPlaintexts, r \in Randoms : Encrypt(d, r)
    \/ DecryptKept
    \/ DecryptChanged
    \/ DecryptCut
    \/ DecryptText
    \/ DecryptShort
    \/ Forget

Spec == Init /\ [][Next]_vars

-----------------------------------------------------------------------------
(* What the claims speak of *)

\* the frame of the caller's last call
F == thr[Main]

\* the last call was a call of op and is over
Returned(op) == F.op = op /\ F.pc = 0

\* an envelope is kept and the instance is configured as when it was made
SameConfig ==
    /\ made # <<>>
    /\ self.FSC_KEY = made[1].key
    /\ self.EXPANSION_COUNT = made[1].count

\* a and e differ at exactly one place
OnePlaceChanged(a, e) ==
    /\ Len(a) = Len(e)
    /\ Cardinality({i \in 1..Len(e) : a[i] # e[i]}) = 1

\* line x was run
Ran(x) == \E i \in 1..Len(F.trace) : F.trace[i] = x

\* line x was run, and before line y
RanBefore(x, y) ==
    \E i, j \in 1..Len(F.trace) : i < j /\ F.trace[i] = x /\ F.trace[j] = y

-----------------------------------------------------------------------------
\* C1: decrypt of an envelope encrypt returned for the bytes p, the instance
\* holding the same secret key and expansion count, returns exactly p (the
\* empty p included), whatever salt encrypt drew.
C1_RoundTrip ==
    (Returned("decrypt") /\ SameConfig /\ F.arg = made[1].e /\ made[1].p.t = "bytes")
        => (F.exc = "" /\ F.ret = made[1].p)

C1_Witness ==
    /\ Returned("decrypt") /\ SameConfig
    /\ F.arg = made[1].e
    /\ made[1].p.t = "bytes" /\ Len(made[1].p.v) = MaxPlain
    /\ F.ret = made[1].p

\* C2: decrypt of an envelope with one byte changed (in the prefix, the
\* version, the salt, the ciphertext or the MAC), under the same key, raises
\* the authentication error or a format error and returns nothing.
C2_TamperDetected ==
    (/\ Returned("decrypt") /\ SameConfig
     /\ F.arg.t = "bytes"
     /\ OnePlaceChanged(F.arg.v, made[1].e.v))
        => (F.exc \in {BadPassword, BadHeader, MissingData} /\ F.ret = None)

C2_Witness ==
    /\ Returned("decrypt") /\ SameConfig
    /\ F.arg.t = "bytes"
    /\ OnePlaceChanged(F.arg.v, made[1].e.v)
    /\ F.arg.v[5] # made[1].e.v[5]
    /\ F.exc = BadPassword

\* C3: in a call of decrypt the cipher is built and run (lines 76 to 78) only
\* after line 75 compared the MAC embedded in the input with the recomputed one
\* and they were equal; when they differ the call raises the authentication
\* error, runs no cipher line and returns nothing.
C3_AuthenticateBeforeDecrypt ==
    Returned("decrypt") =>
        /\ \A x \in {76, 77, 78} : Ran(x) =>
               /\ RanBefore(75, x)
               /\ F.hmac = PyFrom(F.arg.v, -32)
               /\ F.hmac = F.hmac2
        /\ (F.ret # None) => Ran(78)
        /\ (Ran(75) /\ F.hmac # F.hmac2) =>
               /\ F.exc = BadPassword
               /\ F.ret = None
               /\ ~Ran(76) /\ ~Ran(77) /\ ~Ran(78)

C3_Witness ==
    /\ Returned("decrypt")
    /\ Ran(75) /\ F.hmac # F.hmac2
    /\ F.exc = BadPassword

C5_Claimed ==
    (/\ Returned("encrypt") /\ ~PyNot(self.FSC_KEY)
     /\ ~BigLt(PyLen(F.data), BigPow2(64)))
        => F.exc = TooLong

\* C5 as amended: encrypt of a plaintext of more than 2^64 bytes raises the
\* encryption-length error at line 57, before the salt is drawn and before any
\* key derivation, cipher or MAC; a plaintext of 2^64 bytes or fewer passes the
\* length check.
C5_LengthBound ==
    Returned("encrypt") =>
        IF BigGt(PyLen(F.data), BigPow2(64))
        THEN /\ F.exc = TooLong
             /\ F.trace = <<56, 57>>
             /\ F.salt = <<>> /\ F.hmac_key = <<>> /\ F.hmac = <<>>
             /\ F.encrypted = None /\ F.ret = None
        ELSE F.exc # TooLong /\ Ran(58)

C5_Witness ==
    /\ Returned("encrypt") /\ ~PyNot(self.FSC_KEY)
    /\ PyLen(F.data) = BigPow2(64)
    /\ F.exc = ""

\* C6: encrypt of n bytes returns HEADER || SALT || CIPHERTEXT || MAC of
\* 5 + 32 + n + 32 bytes: HEADER is "fsc" 0 2, SALT the 32 bytes the keys were
\* derived with in this call, CIPHERTEXT n bytes, and MAC the HMAC, under the
\* derived MAC key, of the bytes before it.
C6_WireFormat ==
    (Returned("encrypt") /\ F.exc = "") =>
        /\ PyLen(F.ret) = BigAdd(PyLen(F.data), BigOf(5 + 32 + 32))
        /\ PyTo(F.ret.v, 5) = Lits(<<102, 115, 99, 0, 2>>)
        /\ PySlice(F.ret.v, 5, 37) = F.salt
        /\ Len(F.salt) = 32
        /\ Len(F.ret.v) = 37 + Len(F.data.v) + Len(IF F.ret.ext = <<>> THEN F.hmac ELSE <<>>)
        /\ F.ret.ext = F.data.ext
        /\ LET mac == IF F.ret.ext = <<>> THEN PyFrom(F.ret.v, -32) ELSE F.ret.tail
               body == IF F.ret.ext = <<>> THEN PyTo(F.ret.v, -32) ELSE F.ret.v
           IN  /\ Len(mac) = 32
               /\ F.ret.ext = <<>> =>
                    \E i, j \in 1..Len(tab) :
                        /\ tab[i] = Input("pbkdf2", self.FSC_KEY.v, F.salt, <<>>,
                                          self.EXPANSION_COUNT)
                        /\ tab[j] = Input("hmac", Out(i, 32), body, <<>>, 0)
                        /\ mac = Out(j, 32)

C6_Witness ==
    /\ Returned("encrypt") /\ F.exc = ""
    /\ F.arg.t = "bytes" /\ F.ret.ext = <<>>
    /\ Len(F.arg.v) = MaxPlain
    /\ Len(F.ret.v) = 69 + MaxPlain

C8_Claimed ==
    /\ (Returned("init_app") /\ PyNot(F.arg)) => F.exc = RequiresSecretKey
    /\ (Returned("encrypt") \/ Returned("decrypt")) => F.exc # MissingPassword

\* what C8 as amended says of a state
C8_State ==
    /\ Returned("init_app") =>
           /\ PyNot(F.arg) => F.exc = RequiresSecretKey
           /\ F.exc = "" => (self.FSC_KEY = F.arg /\ ~PyNot(self.FSC_KEY))
    /\ (Returned("encrypt") \/ Returned("decrypt")) =>
           (F.exc = MissingPassword <=>
                (PyNot(self.FSC_KEY) /\ (Ran(59) \/ Ran(72))))

\* what C8 as amended says of a step: only an init_app that returns gives the
\* instance a key, and an instance that holds a key goes on holding one
C8_Step ==
    /\ ~PyNot(self.FSC_KEY) => ~PyNot(self'.FSC_KEY)
    /\ (PyNot(self.FSC_KEY) /\ ~PyNot(self'.FSC_KEY)) =>
           (thr'[Main].op = "init_app" /\ thr'[Main].exc = "")

\* C8 as amended: init_app with an absent or empty secret key raises the
\* configuration error and stores no key, and an init_app that returns has
\* stored one for good; a call of encrypt or decrypt that gets to the key
\* derivation fails for the missing key (ValueError "Missing password.")
\* exactly when the instance holds no key, that is when no init_app has
\* returned on it yet.
C8_MissingKey == []C8_State /\ [][C8_Step]_vars

C8_Witness ==
    /\ Returned("encrypt")
    /\ PyNot(self.FSC_KEY)
    /\ self.EXPANSION_COUNT # NoCount
    /\ F.exc = MissingPassword

\* C9: decrypt of a text raises the decryption-usage error at its first line,
\* before the prefix check, the length check, the key derivation, the MAC and
\* the cipher, also when the text's bytes are a valid envelope.
C9_TextRejected ==
    (Returned("decrypt") /\ F.arg.t = "str") =>
        /\ F.exc = MustBeBytes
        /\ F.trace = <<67>>
        /\ F.ret = None
        /\ F.hmac_key = <<>> /\ F.hmac2 = <<>>

C9_Witness ==
    /\ Returned("decrypt") /\ SameConfig
    /\ F.arg = Text(made[1].e.v)
    /\ F.exc = MustBeBytes

-----------------------------------------------------------------------------
(* Concurrent callers: the threads share the initialised instance, each    *)
(* makes one call of encrypt or decrypt, and the calls run line by line in *)
(* any order.                                                              *)

\* an instance after a successful init_app; the callers keep no envelope yet,
\* or one made before the threads start
InitConc ==
    LET c == Config(TRUE, 1000, Bytes(Lits(<<107, 49>>)))
        s0 == init_app(SimpleCrypt_init, c).self
        m == encrypt(s0, <<>>, Bytes(Lits(<<104, 255>>)), [i \in 1..32 |-> Lit(0)])
    IN  /\ self = s0
        /\ \/ tab = m.tab /\ made = <<Kept([m EXCEPT !.self = s0])>>
           \/ tab = <<>> /\ made = <<>>
        /\ thr = [t \in Threads |-> Idle]

\* the plaintext thread t encrypts: each thread its own
ConcPlaintext(t) == Bytes([i \in 1..t |-> Lit(104 + t)])

\* thread t calls encrypt
CallEncrypt(t) ==
    /\ thr[t] = Idle
    /\ \E r \in Randoms :
           thr' = [thr EXCEPT ![t] = Frame("encrypt", ConcPlaintext(t), r)]
    /\ UNCHANGED <<self, tab, made>>

\* thread t calls decrypt, with an envelope some call of encrypt has returned,
\* as it is, with its last byte changed or as a text
CallDecrypt(t) ==
    /\ thr[t] = Idle
    /\ \E e \in Envelopes :
         \E d \in {e, [e EXCEPT !.v = Tamper(e.v, Len(e.v), 1)], Text(e.v)} :
           thr' = [thr EXCEPT ![t] = Frame("decrypt", d, <<>>)]
    /\ UNCHANGED <<self, tab, made>>

\* thread t runs the next line of its call; the caller keeps the envelope a
\* call of encrypt returns
RunLine(t) ==
    /\ thr[t].pc # 0
    /\ LET m == Step([self |-> self, tab |-> tab, f |-> thr[t]])
       IN  /\ self' = m.self
           /\ tab' = m.tab
           /\ thr' = [thr EXCEPT ![t] = m.f]
           /\ made' = IF m.f.pc = 0 /\ m.f.op = "encrypt" /\ m.f.exc = ""
                      THEN Append(made, Kept(m)) ELSE made

NextConc == \E t \in Threads : CallEncrypt(t) \/ CallDecrypt(t) \/ RunLine(t)

SpecConc == InitConc /\ [][NextConc]_vars

-----------------------------------------------------------------------------
\* the call of thread t is over and was a call of op
Over(t, op) == thr[t].op = op /\ thr[t].pc = 0

\* what the concurrent calls have come to
C10_Outcomes ==
    /\ \A t \in Threads : Over(t, "decrypt") =>
           LET alone == decrypt(self, tab, thr[t].arg).f
           IN  /\ thr[t].exc = alone.exc
               /\ thr[t].ret = alone.ret
               /\ \A i \in 1..Len(made) :
                      /\ thr[t].arg = made[i].e =>
                             (thr[t].exc = "" /\ thr[t].ret = made[i].p)
                      /\ (thr[t].arg.t = "bytes" /\ thr[t].arg # made[i].e
                              /\ OnePlaceChanged(thr[t].arg.v, made[i].e.v)) =>
                             (thr[t].exc = BadPassword /\ thr[t].ret = None)
    /\ \A i \in 1..Len(made) :
           LET later == decrypt(self, tab, made[i].e).f
           IN  later.exc = "" /\ later.ret = made[i].p

\* C10: no line of encrypt or decrypt, in a call that returns or in one that
\* raises, changes an attribute of the instance (the secret key, the expansion
\* count, the format constants); so, however the lines of concurrent calls
\* interleave, a call of decrypt comes to what it comes to when run alone on
\* the same input, and every envelope a concurrent encrypt returned decrypts
\* to its own plaintext.
C10_Stateless == [][self' = self]_vars /\ []C10_Outcomes

\* thread 1 drew its salt first and is still in its call of encrypt when the
\* call of encrypt of thread 2 has returned
C10_Witness ==
    /\ thr[1].op = "encrypt" /\ thr[1].pc = 63
    /\ Over(2, "encrypt") /\ thr[2].exc = ""
    /\ thr[1].rnd # thr[2].rnd
    /\ tab[1] = Input("pbkdf2", thr[1].rnd, <<>>, <<>>, 1)
    /\ Len(made) = 1 /\ made[1].e = thr[2].ret

=============================================================================
